---- MODULE Spec2Model ----
(***************************************************************************)
(* letterbox-lang: the variable store (src/src/storage.rs) and the         *)
(* tokenizer (src/src/lb_lexer.rs), as two state machines over one set of  *)
(* variables.  SpecStore drives the store's operations; Spec drives        *)
(* successive calls of the tokenizer's next() over a source text.          *)
(***************************************************************************)
EXTENDS Integers, Sequences, FiniteSets, TLC

VARIABLES
    data,       \* LbStorage.data : HashMap<char, Val>, a function on its key set
    panicked,   \* TRUE once an operation of the store aborted (Option::expect on None)
    ret,        \* what the last store operation returned
    hist,       \* history: for each valid name, the value last written to it (zero if none)
    src,        \* the text the Lexer was built on (a sequence of characters)
    pos,        \* the Lexer's cursor (number of characters consumed)
    toks,       \* the tokens next() has returned, each with its span
    ended,      \* TRUE once next() has returned None
    parts       \* history: the fragments the text was put together from

vars == <<data, panicked, ret, hist, src, pos, toks, ended, parts>>
storeVars == <<data, panicked, ret, hist>>
lexVars == <<src, pos, toks, ended, parts>>

(***************************************************************************)
(* Bounds                                                                  *)
(***************************************************************************)
\* largest magnitude of a Number handed to set_var
MaxMag == 1
\* number of fragments a source text is put together from
MaxFrags == 3

(***************************************************************************)
(* Characters and values                                                   *)
(***************************************************************************)
Lower == {"a","b","c","d","e","f","g","h","i","j","k","l","m",
          "n","o","p","q","r","s","t","u","v","w","x","y","z"}
Upper == {"A","B","C","D","E","F","G","H","I","J","K","L","M",
          "N","O","P","Q","R","S","T","U","V","W","X","Y","Z"}
Digit == {"0","1","2","3","4","5","6","7","8","9"}

VALID_VARS == Lower

is_var(c) == c \in VALID_VARS

\* Val::Number(f64): sign bit, and the magnitude as num / 10^scale (num carries no
\* trailing decimal zero when scale > 0).  Val::Text(String): a sequence of characters.
Number(neg, num, scale) == [kind |-> "Number", neg |-> neg, num |-> num, scale |-> scale]
Text(s) == [kind |-> "Text", s |-> s]

\* Val::zero()
ValZero == Number(FALSE, 0, 0)

(***************************************************************************)
(* The variable store                                                      *)
(***************************************************************************)
\* names the operations are called with: two valid ones, and one that is not
NameInputs == {"a", "b", "A"}

\* values handed to set_var
ValInputs ==
    {Number(FALSE, m, 0) : m \in 0..MaxMag}
        \cup {Number(TRUE, 0, 0), Text(<<>>), Text(<<"0">>)}

Insert(d, k, v) == [c \in DOMAIN d \cup {k} |-> IF c = k THEN v ELSE d[c]]
Remove(d, k) == [c \in DOMAIN d \ {k} |-> d[c]]
Empty == [c \in {} |-> ValZero]

\* what an operation returned: status is "Ok", "Some", "None", or "panic" when it aborted
Ret(op, name, to, status, val, bool) ==
    [op |-> op, name |-> name, to |-> to, status |-> status, val |-> val, bool |-> bool]

\* get_var: the map after entry(var_name).or_insert(Val::zero())
GetVarData(d, var_name) ==
    IF ~is_var(var_name) THEN d
    ELSE IF var_name \in DOMAIN d THEN d
    ELSE Insert(d, var_name, ValZero)

\* get_var: the Option<&Val> returned
GetVarResult(d, var_name) ==
    IF ~is_var(var_name) THEN [some |-> FALSE, val |-> ValZero]
    ELSE [some |-> TRUE, val |-> GetVarData(d, var_name)[var_name]]

get_var ==
    /\ ~panicked
    /\ \E var_name \in NameInputs :
        LET x == GetVarResult(data, var_name) IN
        /\ data' = GetVarData(data, var_name)
        /\ ret' = Ret("get", var_name, "", IF x.some THEN "Some" ELSE "None", x.val, FALSE)
    /\ UNCHANGED <<panicked, hist>>
    /\ UNCHANGED lexVars

\* set_var: data.insert(var_name, new_value.clone()), whatever the name
SetVarData(d, var_name, new_value) == Insert(d, var_name, new_value)

set_var ==
    /\ ~panicked
    /\ \E var_name \in NameInputs, new_value \in ValInputs :
        /\ data' = SetVarData(data, var_name, new_value)
        /\ ret' = Ret("set", var_name, "", "Ok", ValZero, FALSE)
        /\ hist' = IF is_var(var_name) THEN [hist EXCEPT ![var_name] = new_value] ELSE hist
    /\ UNCHANGED panicked
    /\ UNCHANGED lexVars

\* a reset_var that forgets to remove the key
ResetVarDataKeep(d, var_name) == d

\* reset_var: data.remove(&var_name)
ResetVarData(d, var_name) == Remove(d, var_name)

reset_var ==
    /\ ~panicked
    /\ \E var_name \in NameInputs :
        /\ data' = ResetVarData(data, var_name)
        /\ ret' = Ret("reset", var_name, "", "Ok", ValZero, FALSE)
        /\ hist' = IF is_var(var_name) THEN [hist EXCEPT ![var_name] = ValZero] ELSE hist
    /\ UNCHANGED panicked
    /\ UNCHANGED lexVars

\* reset_all: data.clear()
reset_all ==
    /\ ~panicked
    /\ data' = Empty
    /\ ret' = Ret("reset_all", "", "", "Ok", ValZero, FALSE)
    /\ hist' = [v \in DOMAIN hist |-> ValZero]
    /\ UNCHANGED panicked
    /\ UNCHANGED lexVars

\* copy: get_var(from_var).expect(..) aborts on None; otherwise the clone is set under to_var
storage_copy ==
    /\ ~panicked
    /\ \E from_var \in NameInputs, to_var \in NameInputs :
        LET x == GetVarResult(data, from_var) IN
        IF ~x.some
        THEN /\ panicked' = TRUE
             /\ ret' = Ret("copy", from_var, to_var, "panic", ValZero, FALSE)
             /\ UNCHANGED <<data, hist>>
        ELSE /\ data' = SetVarData(GetVarData(data, from_var), to_var, x.val)
             /\ ret' = Ret("copy", from_var, to_var, "Ok", ValZero, FALSE)
             /\ hist' = IF is_var(to_var) THEN [hist EXCEPT ![to_var] = hist[from_var]] ELSE hist
             /\ UNCHANGED panicked
    /\ UNCHANGED lexVars

\* a var_as_bool that reads an empty Text as false
AsBoolOfEmptyFalse(x) == IF x.kind = "Number" THEN x.num # 0 ELSE Len(x.s) # 0

\* the match of var_as_bool on the value read: Number(n) => n != 0.0, Text(_) => true
AsBoolOf(x) == IF x.kind = "Number" THEN x.num # 0 ELSE TRUE

\* var_as_bool: get_var(var_name).expect(..) aborts on None
var_as_bool ==
    /\ ~panicked
    /\ \E var_name \in NameInputs :
        LET x == GetVarResult(data, var_name) IN
        IF ~x.some
        THEN /\ panicked' = TRUE
             /\ ret' = Ret("as_bool", var_name, "", "panic", ValZero, FALSE)
             /\ UNCHANGED <<data, hist>>
        ELSE /\ data' = GetVarData(data, var_name)
             /\ ret' = Ret("as_bool", var_name, "", "Some", x.val, AsBoolOf(x.val))
             /\ UNCHANGED <<panicked, hist>>
    /\ UNCHANGED lexVars

\* LbStorage::new(), with no lexer at work
InitStore ==
    /\ data = Empty
    /\ panicked = FALSE
    /\ ret = Ret("new", "", "", "Ok", ValZero, FALSE)
    /\ hist = [v \in NameInputs \cap VALID_VARS |-> ValZero]
    /\ src = <<>>
    /\ pos = 0
    /\ toks = <<>>
    /\ ended = FALSE
    /\ parts = <<>>

NextStore == get_var \/ set_var \/ reset_var \/ reset_all \/ storage_copy \/ var_as_bool

SpecStore == InitStore /\ [][NextStore]_vars

(***************************************************************************)
(* The tokenizer: texts, and the shapes of the rules                       *)
(***************************************************************************)
Letter == Lower \cup Upper
Quote == "'"
White == {" ", "\t", "\n", "\f", "\r"}
LineEnd == {"\n", "\r"}

\* the character at byte offset i of s (offsets start at 0), "" past the end
At(s, i) == IF i >= 0 /\ i < Len(s) THEN s[i + 1] ELSE ""

\* the slice s[a..b] and the slice s[a..]
Slice(s, a, b) == SubSeq(s, a + 1, b)
SliceFrom(s, a) == SubSeq(s, a + 1, Len(s))

RECURSIVE RunIn(_, _, _)
\* how many characters of s, from offset i on, lie in the set cs
RunIn(s, i, cs) == IF At(s, i) \in cs THEN 1 + RunIn(s, i + 1, cs) ELSE 0

RECURSIVE RunNotIn(_, _, _)
\* how many characters of s, from offset i on, lie outside the set cs
RunNotIn(s, i, cs) ==
    IF i < Len(s) /\ At(s, i) \notin cs THEN 1 + RunNotIn(s, i + 1, cs) ELSE 0

\* Each Re... gives the length of the longest match of one rule's regex at offset
\* p of s, 0 when it does not match.

\* S[a-z]\-?[0-9]+(\.[0-9]+)?
ReSaveNumber(s, p) ==
    IF At(s, p) = "S" /\ At(s, p + 1) \in Lower
    THEN LET m == IF At(s, p + 2) = "-" THEN 1 ELSE 0
             n == RunIn(s, p + 2 + m, Digit)
             f == IF At(s, p + 2 + m + n) = "." THEN RunIn(s, p + 3 + m + n, Digit) ELSE 0
         IN  IF n = 0 THEN 0 ELSE 2 + m + n + (IF f > 0 THEN 1 + f ELSE 0)
    ELSE 0

\* '[^']*' at offset q: its length, 0 when there is no closing quote
ReQuoted(s, q) ==
    IF At(s, q) = Quote
    THEN LET n == RunNotIn(s, q + 1, {Quote})
         IN  IF At(s, q + 1 + n) = Quote THEN n + 2 ELSE 0
    ELSE 0

\* S[a-z]'[^']*'
ReSaveStr(s, p) ==
    IF At(s, p) = "S" /\ At(s, p + 1) \in Lower /\ ReQuoted(s, p + 2) > 0
    THEN 2 + ReQuoted(s, p + 2) ELSE 0

\* C[a-z][a-z]
ReCopy(s, p) ==
    IF At(s, p) = "C" /\ At(s, p + 1) \in Lower /\ At(s, p + 2) \in Lower THEN 3 ELSE 0

\* A[a-z][a-z]
ReAppend(s, p) ==
    IF At(s, p) = "A" /\ At(s, p + 1) \in Lower /\ At(s, p + 2) \in Lower THEN 3 ELSE 0

\* P[a-z]
RePrintVar(s, p) == IF At(s, p) = "P" /\ At(s, p + 1) \in Lower THEN 2 ELSE 0

\* P'[^']*'
RePrintStr(s, p) ==
    IF At(s, p) = "P" /\ ReQuoted(s, p + 1) > 0 THEN 1 + ReQuoted(s, p + 1) ELSE 0

\* the shape [A-Z][a-z][a-z][a-z] after a one-letter mnemonic
ReOpShape(s, p, mn) ==
    IF /\ At(s, p) = mn /\ At(s, p + 1) \in Upper
       /\ At(s, p + 2) \in Lower /\ At(s, p + 3) \in Lower /\ At(s, p + 4) \in Lower
    THEN 5 ELSE 0

\* M[A-Z][a-z][a-z][a-z]
ReMathOp(s, p) == ReOpShape(s, p, "M")

\* B[A-Z][a-z][a-z][a-z]
ReBoolOp(s, p) == ReOpShape(s, p, "B")

\* a control rule that takes one letter of the body only
ReControlShort(s, p, mn) ==
    IF At(s, p) = mn /\ At(s, p + 1) \in Lower /\ At(s, p + 2) \in Letter THEN 3 ELSE 0

\* L[a-z][A-Za-z]+ and the same for I, U, W: mn is the mnemonic
ReControl(s, p, mn) ==
    IF At(s, p) = mn /\ At(s, p + 1) \in Lower /\ At(s, p + 2) \in Letter
    THEN 2 + RunIn(s, p + 2, Letter) ELSE 0

\* R[a-z]
ReResetVar(s, p) == IF At(s, p) = "R" /\ At(s, p + 1) \in Lower THEN 2 ELSE 0

\* RA
ReResetAll(s, p) == IF At(s, p) = "R" /\ At(s, p + 1) = "A" THEN 2 ELSE 0

\* G[A-Z][a-z][0-9]+
ReGetInput(s, p) ==
    IF /\ At(s, p) = "G" /\ At(s, p + 1) \in Upper /\ At(s, p + 2) \in Lower
       /\ At(s, p + 3) \in Digit
    THEN 3 + RunIn(s, p + 3, Digit) ELSE 0

\* N[a-z]
ReNegate(s, p) == IF At(s, p) = "N" /\ At(s, p + 1) \in Lower THEN 2 ELSE 0

\* F
ReFinish(s, p) == IF At(s, p) = "F" THEN 1 ELSE 0

\* an Execute rule that takes every trailing lowercase letter
ReExecuteOdd(s, p) ==
    IF At(s, p) = "X" /\ At(s, p + 1) \in Lower
    THEN 2 + RunIn(s, p + 2, Lower) ELSE 0

\* X[a-z]([a-z][a-z])*
ReExecute(s, p) ==
    IF At(s, p) = "X" /\ At(s, p + 1) \in Lower
    THEN 2 + 2 * (RunIn(s, p + 2, Lower) \div 2) ELSE 0

\* ![^\n\r]*  (skipped)
ReComment(s, p) == IF At(s, p) = "!" THEN 1 + RunNotIn(s, p + 1, LineEnd) ELSE 0

\* [ \t\n\f\r]+  (skipped)
ReWhitespace(s, p) == RunIn(s, p, White)

(***************************************************************************)
(* The tokenizer: tokens and callbacks                                     *)
(***************************************************************************)
\* An LbToken: the variant's name and its payload as a tuple.  A control variant's
\* payload is <<condition, body>>, the body an LbToken (Box<LbToken>).
Tok(kind, val) == [kind |-> kind, val |-> val]
Error == Tok("Error", <<>>)

ControlKinds == {"Loop", "IfStatement", "Unless", "WhileLoop"}
ControlOf(mn) ==
    CASE mn = "L" -> "Loop" [] mn = "I" -> "IfStatement"
      [] mn = "U" -> "Unless" [] mn = "W" -> "WhileLoop"

None == [some |-> FALSE, val |-> <<>>]
Some(v) == [some |-> TRUE, val |-> v]

DigitChars == <<"0", "1", "2", "3", "4", "5", "6", "7", "8", "9">>
DigitVal(c) == (CHOOSE i \in 1..10 : DigitChars[i] = c) - 1

RECURSIVE DigitsVal(_)
\* the number a run of decimal digits writes
DigitsVal(ds) ==
    IF ds = <<>> THEN 0
    ELSE 10 * DigitsVal(SubSeq(ds, 1, Len(ds) - 1)) + DigitVal(ds[Len(ds)])

RECURSIVE Pow10(_)
Pow10(n) == IF n = 0 THEN 1 ELSE 10 * Pow10(n - 1)

RECURSIVE StripZeros(_)
\* a fraction's digits without its trailing zeros
StripZeros(ds) ==
    IF ds # <<>> /\ ds[Len(ds)] = "0" THEN StripZeros(SubSeq(ds, 1, Len(ds) - 1)) ELSE ds

\* str::parse::<f64> on the decimal shapes the rules let through: an optional '-',
\* digits, an optional '.' with digits; anything else here is a parse error
ParseF64(t) ==
    LET m == IF At(t, 0) = "-" THEN 1 ELSE 0
        n == RunIn(t, m, Digit)
        dot == At(t, m + n) = "."
        f == IF dot THEN RunIn(t, m + n + 1, Digit) ELSE 0
        used == m + n + (IF dot THEN 1 + f ELSE 0)
        fs == StripZeros(Slice(t, m + n + 1, m + n + 1 + f))
    IN  IF n = 0 \/ used # Len(t) THEN None
        ELSE Some(Number(m = 1,
                         DigitsVal(Slice(t, m, m + n)) * Pow10(Len(fs)) + DigitsVal(fs),
                         Len(fs)))

RECURSIVE TrimStart(_, _)
TrimStart(t, c) == IF t # <<>> /\ t[1] = c THEN TrimStart(Tail(t), c) ELSE t

RECURSIVE TrimEnd(_, _)
TrimEnd(t, c) ==
    IF t # <<>> /\ t[Len(t)] = c THEN TrimEnd(SubSeq(t, 1, Len(t) - 1), c) ELSE t

\* str::trim_matches(c)
TrimMatches(t, c) == TrimEnd(TrimStart(t, c), c)

\* token.chars().nth(i)
Nth(token, i) == IF i < Len(token) THEN Some(token[i + 1]) ELSE None

save_number(token) ==
    LET var_name == Nth(token, 1)
        num == ParseF64(SliceFrom(token, 2))
    IN  IF ~var_name.some THEN None
        ELSE IF ~num.some THEN None
        ELSE Some(<<var_name.val, num.val>>)

save_str(token) ==
    LET var_name == Nth(token, 1)
        my_str == TrimMatches(SliceFrom(token, 2), Quote)
    IN  IF var_name.some THEN Some(<<var_name.val, my_str>>) ELSE None

copy(token) ==
    LET var_name_1 == Nth(token, 1)
        var_name_2 == Nth(token, 2)
    IN  IF ~var_name_1.some THEN None
        ELSE IF ~var_name_2.some THEN None
        ELSE Some(<<var_name_1.val, var_name_2.val>>)

single_var_arg(token) ==
    LET c == Nth(token, 1) IN IF c.some THEN Some(<<c.val>>) ELSE None

print_str(token) == Some(<<TrimMatches(SliceFrom(token, 1), Quote)>>)

MathOps == {"A", "S", "M", "D", "E", "G", "L", "R"}
BoolOps == {"E", "A", "O", "X"}
InputKinds == {"N", "S"}

\* a math_op without the check of the operator
math_op_unchecked(token) ==
    LET args == SliceFrom(token, 1) IN
    IF Len(args) # 4 THEN None ELSE Some(<<args[1], args[2], args[3], args[4]>>)

math_op(token) ==
    LET args == SliceFrom(token, 1) IN
    IF Len(args) # 4 THEN None
    ELSE IF args[1] \notin MathOps THEN None
    ELSE Some(<<args[1], args[2], args[3], args[4]>>)

bool_op(token) ==
    LET args == SliceFrom(token, 1) IN
    IF Len(args) # 4 THEN None
    ELSE IF args[1] \notin BoolOps THEN None
    ELSE Some(<<args[1], args[2], args[3], args[4]>>)

execute_var(token) ==
    LET fn_var == Nth(token, 1) IN
    IF fn_var.some THEN Some(<<fn_var.val, SliceFrom(token, 2)>>) ELSE None

get_input(token) ==
    LET op == token[2]
        var == token[3]
        num == ParseF64(SliceFrom(token, 3))
    IN  IF op \notin InputKinds THEN None
        ELSE IF ~num.some THEN None
        ELSE Some(<<op, var, num.val>>)

(***************************************************************************)
(* The tokenizer: one call of next()                                       *)
(***************************************************************************)
Rules ==
    <<"SaveNumber", "SaveStr", "Copy", "Append", "PrintVar", "PrintStr", "MathOp",
      "BoolOp", "Loop", "IfStatement", "Unless", "WhileLoop", "ResetVar", "ResetAll",
      "GetInput", "Negate", "Finish", "Execute", "Comment", "Whitespace">>

SkipRules == {"Comment", "Whitespace"}

RuleLen(rule, s, p) ==
    CASE rule = "SaveNumber" -> ReSaveNumber(s, p)
      [] rule = "SaveStr" -> ReSaveStr(s, p)
      [] rule = "Copy" -> ReCopy(s, p)
      [] rule = "Append" -> ReAppend(s, p)
      [] rule = "PrintVar" -> RePrintVar(s, p)
      [] rule = "PrintStr" -> RePrintStr(s, p)
      [] rule = "MathOp" -> ReMathOp(s, p)
      [] rule = "BoolOp" -> ReBoolOp(s, p)
      [] rule = "Loop" -> ReControl(s, p, "L")
      [] rule = "IfStatement" -> ReControl(s, p, "I")
      [] rule = "Unless" -> ReControl(s, p, "U")
      [] rule = "WhileLoop" -> ReControl(s, p, "W")
      [] rule = "ResetVar" -> ReResetVar(s, p)
      [] rule = "ResetAll" -> ReResetAll(s, p)
      [] rule = "GetInput" -> ReGetInput(s, p)
      [] rule = "Negate" -> ReNegate(s, p)
      [] rule = "Finish" -> ReFinish(s, p)
      [] rule = "Execute" -> ReExecute(s, p)
      [] rule = "Comment" -> ReComment(s, p)
      [] rule = "Whitespace" -> ReWhitespace(s, p)

NoRule == [rule |-> "none", len |-> 0]

\* the longer of two matches, the earlier rule on a tie
Longer(x, y) == IF x.len > 0 /\ x.len >= y.len THEN x ELSE y

RECURSIVE MatchFrom(_, _, _)
MatchFrom(s, p, i) ==
    IF i > Len(Rules) THEN NoRule
    ELSE Longer([rule |-> Rules[i], len |-> RuleLen(Rules[i], s, p)], MatchFrom(s, p, i + 1))

\* the rule with the longest match at offset p of s, NoRule when no rule matches
Match(s, p) == MatchFrom(s, p, 1)

\* how many characters at offset p still fit the beginning of some rule's shape
\* although no rule matches there
ViablePrefix(s, p) ==
    LET c == At(s, p) IN
    CASE c = "S" ->
            IF At(s, p + 1) \notin Lower THEN 1
            ELSE IF At(s, p + 2) = "-" THEN 3
            ELSE IF At(s, p + 2) = Quote THEN 3 + RunNotIn(s, p + 3, {Quote})
            ELSE 2
      [] c \in {"C", "A"} -> IF At(s, p + 1) \in Lower THEN 2 ELSE 1
      [] c = "P" -> IF At(s, p + 1) = Quote THEN 2 + RunNotIn(s, p + 2, {Quote}) ELSE 1
      [] c \in {"M", "B"} ->
            IF At(s, p + 1) \notin Upper THEN 1
            ELSE IF At(s, p + 2) \notin Lower THEN 2
            ELSE IF At(s, p + 3) \notin Lower THEN 3
            ELSE 4
      [] c \in {"L", "I", "U", "W"} -> IF At(s, p + 1) \in Lower THEN 2 ELSE 1
      [] c = "G" ->
            IF At(s, p + 1) \notin Upper THEN 1
            ELSE IF At(s, p + 2) \notin Lower THEN 2
            ELSE 3
      [] c \in {"R", "N", "X"} -> 1
      [] OTHER -> 0

\* where the Error token for unmatched text at offset p ends at the least: one
\* character on
NoMatchEnd(s, p) == p + 1

\* where it ends at the most: the generated automaton may already have advanced
\* over the characters that fitted the beginning of a rule
NoMatchMax(s, p) ==
    LET m == p + ViablePrefix(s, p) + 1 IN IF m > Len(s) THEN Len(s) ELSE m

RECURSIVE Scan(_, _)

\* what lex.next() gave, as an Option<LbToken>
NextResult(r) == IF r.end THEN None ELSE Some(r.tok)

\* lex_sub: a new lexer on the subcommand's text, and its first next()
lex_sub(sub) == NextResult(Scan(sub, 0))

\* base_loop's match on cmd: the subcommand is boxed under the condition
BoxSubcommand(condition, cmd) ==
    IF cmd.some THEN Some(<<condition, cmd.val>>) ELSE None

\* a base_loop that hands the sub-lexer the body without its first letter
base_loop_shifted(token) == BoxSubcommand(token[2], lex_sub(SliceFrom(token, 3)))

base_loop(token) ==
    IF Nth(token, 1).some
    THEN IF Len(SliceFrom(token, 2)) <= 0 THEN None
         ELSE BoxSubcommand(Nth(token, 1).val, lex_sub(SliceFrom(token, 2)))
    ELSE None

\* the callback of a rule on the matched slice
Callback(rule, token) ==
    CASE rule = "SaveNumber" -> save_number(token)
      [] rule = "SaveStr" -> save_str(token)
      [] rule \in {"Copy", "Append"} -> copy(token)
      [] rule \in {"PrintVar", "ResetVar", "Negate"} -> single_var_arg(token)
      [] rule = "PrintStr" -> print_str(token)
      [] rule = "MathOp" -> math_op(token)
      [] rule = "BoolOp" -> bool_op(token)
      [] rule \in ControlKinds -> base_loop(token)
      [] rule = "GetInput" -> get_input(token)
      [] rule = "Execute" -> execute_var(token)
      [] rule \in {"ResetAll", "Finish"} -> Some(<<>>)

\* the result of next(): end is TRUE for None; start..stop is the token's span,
\* and max the farthest an Error for unmatched text may reach
Result(end, tok, start, stop, max) ==
    [end |-> end, tok |-> tok, start |-> start, stop |-> stop, max |-> max]

\* a match m at offset p whose callback gave r: the rule's variant, or Error over
\* the same span when the callback gave None
Emit(p, m, r) ==
    Result(FALSE, IF r.some THEN Tok(m.rule, r.val) ELSE Error, p, p + m.len, p + m.len)

\* Lexer::next() with the cursor at offset p of s, m the match there: skipped text
\* is passed over, unmatched text gives Error
ScanMatch(s, p, m) ==
    IF m.rule \in SkipRules THEN Scan(s, p + m.len)
    ELSE IF m.rule = "none"
    THEN Result(FALSE, Error, p, NoMatchEnd(s, p), NoMatchMax(s, p))
    ELSE Emit(p, m, Callback(m.rule, Slice(s, p, p + m.len)))

Scan(s, p) ==
    IF p >= Len(s) THEN Result(TRUE, Error, Len(s), Len(s), Len(s))
    ELSE ScanMatch(s, p, Match(s, p))

\* one call of next() on the program's lexer
lexer_next ==
    /\ ~ended
    /\ \E r \in {Scan(src, pos)} :
       IF r.end
       THEN /\ ended' = TRUE
            /\ pos' = r.stop
            /\ UNCHANGED toks
       ELSE /\ \E e \in r.stop..(IF r.max < r.stop THEN r.stop ELSE r.max) :
                 /\ toks' = Append(toks, [tok |-> r.tok, start |-> r.start, end |-> e])
                 /\ pos' = e
            /\ UNCHANGED ended
    /\ UNCHANGED <<src, parts>>
    /\ UNCHANGED storeVars

(***************************************************************************)
(* Source texts: put together from fragments                               *)
(***************************************************************************)
\* cls: "instr" a leaf instruction with the token its text writes, "ctl" a control
\* mnemonic with its condition (tok is the node still without its body), "sep"
\* whitespace, "comment" a comment up to the end of its line, "bad" text that is
\* no instruction
Frag(text, cls, tok) == [text |-> text, cls |-> cls, tok |-> tok]

Frags == <<
    Frag(<<"S","a","-","4",".","5","0">>, "instr",
         Tok("SaveNumber", <<"a", Number(TRUE, 45, 1)>>)),
    Frag(<<"S","b","'","x","!","'">>, "instr", Tok("SaveStr", <<"b", <<"x","!">> >>)),
    Frag(<<"C","a","b">>, "instr", Tok("Copy", <<"a", "b">>)),
    Frag(<<"P","a">>, "instr", Tok("PrintVar", <<"a">>)),
    Frag(<<"P","'","h"," ","w","'">>, "instr", Tok("PrintStr", << <<"h"," ","w">> >>)),
    Frag(<<"M","A","b","c","d">>, "instr", Tok("MathOp", <<"A", "b", "c", "d">>)),
    Frag(<<"G","N","n","1","0">>, "instr",
         Tok("GetInput", <<"N", "n", Number(FALSE, 10, 0)>>)),
    Frag(<<"X","z","a","b","c","d">>, "instr", Tok("Execute", <<"z", <<"a","b","c","d">> >>)),
    Frag(<<"R","A">>, "instr", Tok("ResetAll", <<>>)),
    Frag(<<"L","a">>, "ctl", Tok("Loop", <<"a">>)),
    Frag(<<"I","c">>, "ctl", Tok("IfStatement", <<"c">>)),
    Frag(<<"W","a">>, "ctl", Tok("WhileLoop", <<"a">>)),
    Frag(<<" ">>, "sep", Error),
    Frag(<<"\n">>, "sep", Error),
    Frag(<<"!"," ","P","a">>, "comment", Error),
    Frag(<<"M","Z","a","b","c">>, "bad", Error),
    Frag(<<"G","X","a","1">>, "bad", Error),
    Frag(<<"q">>, "bad", Error)
>>

RECURSIVE Concat(_)
\* the text a sequence of fragments writes
Concat(ps) == IF ps = <<>> THEN <<>> ELSE Frags[Head(ps)].text \o Concat(Tail(ps))

RECURSIVE SeqsUpTo(_)
\* the sequences of at most n fragments
SeqsUpTo(n) ==
    IF n = 0 THEN {<<>>}
    ELSE LET shorter == SeqsUpTo(n - 1) IN
         shorter \cup {Append(q, f) : q \in shorter, f \in 1..Len(Frags)}

PartsInputs == SeqsUpTo(MaxFrags)

\* LbToken::lexer(text) on a text put together from fragments, beside a new store
Init ==
    /\ parts \in PartsInputs
    /\ src = Concat(parts)
    /\ pos = 0
    /\ toks = <<>>
    /\ ended = FALSE
    /\ data = Empty
    /\ panicked = FALSE
    /\ ret = Ret("new", "", "", "Ok", ValZero, FALSE)
    /\ hist = [v \in NameInputs \cap VALID_VARS |-> ValZero]

Next == lexer_next

Spec == Init /\ [][Next]_vars

(***************************************************************************)
(* The store's claims (checked under SpecStore)                            *)
(***************************************************************************)
\* C1: every validating operation (get, set, copy on either name, as_bool) given a
\* character outside a-z returns an error instead of aborting and leaves the store
\* unchanged, so the store never holds a key outside a-z.
C1_InvalidNameFails ==
    /\ ~panicked
    /\ DOMAIN data \subseteq VALID_VARS
    /\ (ret.op \in {"get", "set", "as_bool"} /\ ~is_var(ret.name)) => ret.status = "None"
    /\ (ret.op = "copy" /\ (~is_var(ret.name) \/ ~is_var(ret.to))) => ret.status = "None"

\* C2: on valid names the store is a total map with default Number(0.0): what get
\* returns for v is the value last written to v by set or copy since the last reset
\* of v or reset_all (zero if none); reset_all leaves a store equal to a new one;
\* get and as_bool change no value.
C2_TotalMap ==
    /\ \A v \in DOMAIN hist :
          GetVarResult(data, v) = [some |-> TRUE, val |-> hist[v]]
    /\ (ret.op = "get" /\ is_var(ret.name)) =>
          (ret.status = "Some" /\ ret.val = hist[ret.name])
    /\ ret.op = "reset_all" => data = Empty

\* b still reads the value copied from a after a has been written and then reset
C2_Witness ==
    /\ ret.op = "get" /\ ret.name = "b" /\ ret.val = Text(<<"0">>)
    /\ hist["a"] = ValZero /\ "a" \notin DOMAIN data
    /\ hist["b"] = Text(<<"0">>)

\* the value is Number(0.0) as f64 compares: either zero
IsNumberZero(x) == x.kind = "Number" /\ x.num = 0

\* C3: for a valid name, as_bool is false exactly when the value read is Number(0.0)
\* (a never-set or reset name included), true for every other Number and for every
\* Text, the empty one and "0" included; as_bool changes no variable's value.
C3_AsBool ==
    /\ \A v \in DOMAIN hist :
          /\ (AsBoolOf(GetVarResult(data, v).val) = FALSE)
                <=> IsNumberZero(GetVarResult(data, v).val)
          /\ GetVarResult(data, v).val.kind = "Text" => AsBoolOf(GetVarResult(data, v).val)
    /\ (ret.op = "as_bool" /\ ret.status = "Some") =>
          /\ ret.bool = ~IsNumberZero(hist[ret.name])
          /\ GetVarResult(data, ret.name).val = hist[ret.name]
          /\ ret.val = hist[ret.name]

\* as_bool has answered true for an empty Text, and the other name holds the text "0"
C3_Witness ==
    /\ ret.op = "as_bool" /\ ret.status = "Some" /\ ret.bool
    /\ hist[ret.name] = Text(<<>>)
    /\ \E v \in DOMAIN hist : v # ret.name /\ hist[v] = Text(<<"0">>)

(***************************************************************************)
(* The tokenizer's claims (checked under Spec)                             *)
(***************************************************************************)
Cls(ps, i) == Frags[ps[i]].cls
Off(ps, i) == Len(Concat(SubSeq(ps, 1, i - 1)))
AllLetters(t) == \A i \in 1..Len(t) : t[i] \in Letter

\* the parts write instructions, each followed by a separator or the end, a control
\* mnemonic directly by the instruction it governs, a comment by a line end or the end
Separated(ps) ==
    \A i \in 1..Len(ps) :
        /\ Cls(ps, i) # "bad"
        /\ Cls(ps, i) = "instr" => (i = Len(ps) \/ Cls(ps, i + 1) \in {"sep", "comment"})
        /\ Cls(ps, i) = "ctl" => (i < Len(ps) /\ Cls(ps, i + 1) \in {"ctl", "instr"})
        /\ Cls(ps, i) = "comment" => (i = Len(ps) \/ Frags[ps[i + 1]].text = <<"\n">>)

\* no control mnemonic governs an instruction written with digits or quotes
LetterBodies(ps) ==
    \A i \in 1..Len(ps) :
        (Cls(ps, i) = "instr" /\ i > 1 /\ Cls(ps, i - 1) = "ctl") => AllLetters(Frags[ps[i]].text)

RECURSIVE ExpTok(_, _)
\* the node the instruction beginning with part i writes
ExpTok(ps, i) ==
    IF Cls(ps, i) = "ctl"
    THEN Tok(Frags[ps[i]].tok.kind, <<Frags[ps[i]].tok.val[1], ExpTok(ps, i + 1)>>)
    ELSE Frags[ps[i]].tok

RECURSIVE InstrEnd(_, _)
InstrEnd(ps, i) == IF Cls(ps, i) = "ctl" THEN InstrEnd(ps, i + 1) ELSE i

RECURSIVE ExpSeq(_, _)
\* the instructions of the parts from part i on, in order, with their spans
ExpSeq(ps, i) ==
    IF i > Len(ps) THEN <<>>
    ELSE IF Cls(ps, i) \in {"instr", "ctl"}
    THEN <<[tok |-> ExpTok(ps, i), start |-> Off(ps, i),
            end |-> Off(ps, InstrEnd(ps, i) + 1)]>> \o ExpSeq(ps, InstrEnd(ps, i) + 1)
    ELSE ExpSeq(ps, i + 1)

IsPrefix(a, b) == Len(a) <= Len(b) /\ a = SubSeq(b, 1, Len(a))

\* C4: a text of well-formed instructions separated by whitespace and comments
\* yields exactly one token per instruction, in order, with the operands written
\* and covering exactly the instruction's characters, and then the end of input.
C4_OneTokenPerInstruction ==
    Separated(parts) =>
        /\ IsPrefix(toks, ExpSeq(parts, 1))
        /\ ended => toks = ExpSeq(parts, 1)

\* C4 holds of the texts in which no control mnemonic governs an instruction
\* written with digits or quotes
C4_LetterBodies ==
    (Separated(parts) /\ LetterBodies(parts)) =>
        /\ IsPrefix(toks, ExpSeq(parts, 1))
        /\ ended => toks = ExpSeq(parts, 1)

\* the maximal run of letters of s from offset i on
LetterRun(s, i) == Slice(s, i, i + RunIn(s, i, Letter))

ControlAt(s, p) ==
    At(s, p) \in {"L", "I", "U", "W"} /\ At(s, p + 1) \in Lower /\ At(s, p + 2) \in Letter

PrintA == Tok("PrintVar", <<"a">>)

\* C5: a control mnemonic K, a condition c and a maximal run R of letters give one K
\* node with condition c whose body is the first token of R tokenized alone; the
\* token covers all of R, what is left of R is dropped, the next token starts after R.
C5_GreedyBody ==
    /\ \A i \in 1..Len(toks) :
          ControlAt(src, toks[i].start) =>
              /\ toks[i].tok.kind = ControlOf(At(src, toks[i].start))
              /\ toks[i].tok.val[1] = At(src, toks[i].start + 1)
              /\ toks[i].end = toks[i].start + 2 + Len(LetterRun(src, toks[i].start + 2))
              /\ pos >= toks[i].end
              /\ i < Len(toks) => toks[i + 1].start >= toks[i].end
    /\ (Len(toks) >= 1 /\ ControlAt(src, toks[Len(toks)].start)) =>
          toks[Len(toks)].tok.val[2] = Scan(LetterRun(src, toks[Len(toks)].start + 2), 0).tok
    /\ (src = <<"I","c","P","a","P","a">> /\ ended) =>
          toks = <<[tok |-> Tok("IfStatement", <<"c", PrintA>>), start |-> 0, end |-> 6]>>

\* "WaIcXzabcd" has given a WhileLoop of an IfStatement of an Execute
C5_Witness ==
    /\ src = <<"W","a","I","c","X","z","a","b","c","d">>
    /\ ended
    /\ toks = <<[tok |-> Tok("WhileLoop", <<"a", Tok("IfStatement",
                    <<"c", Tok("Execute", <<"z", <<"a","b","c","d">> >>)>>)>>),
                 start |-> 0, end |-> 10]>>

\* C6: for a control mnemonic K, a variable v and a well-formed instruction text t of
\* any kind, the text K v t yields a single K node with condition v whose body is the
\* token of t alone.
C6_BodyIsNextInstruction ==
    (Len(parts) = 2 /\ Cls(parts, 1) = "ctl" /\ Cls(parts, 2) = "instr" /\ ended) =>
        toks = <<[tok |-> Tok(Frags[parts[1]].tok.kind,
                              <<Frags[parts[1]].tok.val[1], Frags[parts[2]].tok>>),
                  start |-> 0, end |-> Len(src)]>>

\* the text at offset p has the shape of a math, boolean or input instruction with
\* an operator or kind outside the allowed set
BadOperandAt(s, p) ==
    \/ ReMathOp(s, p) > 0 /\ At(s, p + 1) \notin MathOps
    \/ ReBoolOp(s, p) > 0 /\ At(s, p + 1) \notin BoolOps
    \/ ReGetInput(s, p) > 0 /\ At(s, p + 1) \notin InputKinds

\* the character at offset p begins no rule
UnrecognizedAt(s, p) == Match(s, p).rule = "none" /\ ViablePrefix(s, p) = 0

\* Every token is the last of toks in the state its call of next() leads to, and
\* the one before the last in the state after: a statement about each token and
\* the token after it is one about these two in every state.
LastTok == toks[Len(toks)]
PrevTok == toks[Len(toks) - 1]

\* C7 as stated: text that is no well-formed instruction (an unrecognized character,
\* or an instruction's shape with an invalid operand) gives one Error token covering
\* exactly one character, and scanning resumes at the next character.
C7_ErrorIsOneCharacter ==
    (/\ Len(toks) >= 1
     /\ BadOperandAt(src, LastTok.start) \/ UnrecognizedAt(src, LastTok.start)) =>
        /\ LastTok.tok = Error
        /\ LastTok.end = LastTok.start + 1
        /\ ~ended => pos = LastTok.end

\* C7 as amended: an instruction's shape with an invalid operator or kind gives one
\* Error token covering the whole shape; a character that begins no rule gives one
\* Error token covering that character; either way the scan goes on right after the
\* token.
C7_ErrorCoversMatch ==
    /\ (Len(toks) >= 1 /\ BadOperandAt(src, LastTok.start)) =>
          /\ LastTok.tok = Error
          /\ LastTok.end = LastTok.start + Match(src, LastTok.start).len
          /\ LastTok.end - LastTok.start >= 4
    /\ (Len(toks) >= 1 /\ UnrecognizedAt(src, LastTok.start)) =>
          /\ LastTok.tok = Error
          /\ LastTok.end = LastTok.start + 1
    /\ (Len(toks) >= 1 /\ LastTok.tok = Error) =>
          /\ LastTok.end > LastTok.start
          /\ ~ended => pos = LastTok.end
          /\ ~panicked
    /\ (Len(toks) >= 2 /\ PrevTok.tok = Error) =>
          LastTok.start = Scan(src, PrevTok.end).start

\* "MZabc", "q" and "Pa" written without separators: an Error over five characters,
\* an Error over one, and the PrintVar
C7_Witness ==
    /\ src = <<"M","Z","a","b","c","q","P","a">>
    /\ ended
    /\ toks = <<[tok |-> Error, start |-> 0, end |-> 5],
                [tok |-> Error, start |-> 5, end |-> 6],
                [tok |-> PrintA, start |-> 6, end |-> 8]>>

RECURSIVE NoErrorBody(_)
NoErrorBody(t) ==
    t.kind \in ControlKinds => (t.val[2].kind # "Error" /\ NoErrorBody(t.val[2]))

\* C8: the body of a Loop, IfStatement, Unless or WhileLoop node, at every depth, is
\* one of the 18 instruction kinds and never the Error token.
C8_BodyNeverError == \A i \in 1..Len(toks) : NoErrorBody(toks[i].tok)

IsVar(c) == c \in Lower

RECURSIVE WellFormed(_)
WellFormed(t) ==
    CASE t.kind = "Error" -> TRUE
      [] t.kind = "SaveNumber" -> IsVar(t.val[1]) /\ t.val[2].kind = "Number"
      [] t.kind = "SaveStr" -> IsVar(t.val[1])
      [] t.kind \in {"Copy", "Append"} -> IsVar(t.val[1]) /\ IsVar(t.val[2])
      [] t.kind \in {"PrintVar", "ResetVar", "Negate"} -> IsVar(t.val[1])
      [] t.kind \in {"PrintStr", "ResetAll", "Finish"} -> TRUE
      [] t.kind = "MathOp" ->
            t.val[1] \in MathOps /\ IsVar(t.val[2]) /\ IsVar(t.val[3]) /\ IsVar(t.val[4])
      [] t.kind = "BoolOp" ->
            t.val[1] \in BoolOps /\ IsVar(t.val[2]) /\ IsVar(t.val[3]) /\ IsVar(t.val[4])
      [] t.kind = "GetInput" ->
            /\ t.val[1] \in InputKinds /\ IsVar(t.val[2])
            /\ t.val[3].kind = "Number" /\ ~t.val[3].neg /\ t.val[3].scale = 0
      [] t.kind = "Execute" ->
            /\ IsVar(t.val[1])
            /\ \A k \in 1..Len(t.val[2]) : IsVar(t.val[2][k])
            /\ Len(t.val[2]) % 2 = 0
      [] t.kind \in ControlKinds -> IsVar(t.val[1]) /\ WellFormed(t.val[2])

RECURSIVE Depth(_)
\* how many control nodes lie on top of a token's innermost body
Depth(t) == IF t.kind \in ControlKinds THEN 1 + Depth(t.val[2]) ELSE 0

\* C10: a call of next() that is not at the end of input moves the cursor on by at
\* least one character, so there are at most as many tokens as characters; the body
\* of a control token is parsed from the token's text without its first two
\* characters, so the nesting depth is bounded by the token's length.
C10_Terminates ==
    [][/\ pos < Len(src) => pos' > pos
       /\ pos' <= Len(src)
       /\ Len(toks') <= pos'
       /\ \A i \in 1..Len(toks') :
             /\ toks'[i].end > toks'[i].start
             /\ 2 * Depth(toks'[i].tok) + 1 <= toks'[i].end - toks'[i].start
             /\ toks'[i].tok.kind \in ControlKinds =>
                   toks'[i].tok.val[2]
                       = Scan(Slice(src, toks'[i].start + 2, toks'[i].end), 0).tok]_vars

\* a token nested two deep has been emitted and the scan has ended
C10_Witness ==
    /\ ended
    /\ pos = Len(src)
    /\ \E i \in 1..Len(toks) : Depth(toks[i].tok) = 2
    /\ Len(toks) >= 2

====
